---- MODULE Spec2Model ----
(***************************************************************************)
(* Model of the particle filter of src/src/particle_filter.cpp.            *)
(*                                                                         *)
(* Numbers.  The program computes in float.  The model computes on exact   *)
(* grids: positions and ranges are integers, a heading is an integer       *)
(* number of quarter turns (1 = pi/2, TWO_PI = 4), and weights and means   *)
(* are exact fractions [num, den] in lowest terms.  std::sqrt and the      *)
(* Gaussian density are rounded to the grid (Isqrt, Density), so that the  *)
(* density underflows to 0 for large residuals as exp() does in float.     *)
(* A division by zero yields the fraction with den = 0 (IEEE inf / NaN).   *)
(***************************************************************************)
EXTENDS Integers, Sequences, FiniteSets, TLC

VARIABLES sigma_pos, sigma_rot, particles, ret, err, call, calls

vars == <<sigma_pos, sigma_rot, particles, ret, err, call, calls>>

(***************************************************************************)
(* Bounds of the model.                                                    *)
(***************************************************************************)
\* largest population (particles_ is an unbounded std::vector)
MaxN == 3
\* number of member-function calls made on one filter
MaxCalls == 2
\* the density is 2^(MaxExp - diff^2), and 0 (underflow) beyond
MaxExp == 2

\* TWO_PI in quarter turns
TWO_PI == 4
\* 1 / 1e-6f, the reciprocal of the epsilon of the Neff denominator
EpsInv == 1000000

(***************************************************************************)
(* Input sets.                                                             *)
(***************************************************************************)
\* (sigma_pos, sigma_rot) handed to the constructor: no noise, position
\* noise, rotation noise
Sigmas == {<<0, 0>>, <<1, 0>>, <<0, 1>>}
\* initial pose guesses (robot_x, robot_y, robot_theta)
Guesses == {<<0, 0, 0>>, <<1, 1, 3>>}
\* controls (distance, rotation): forward, right turn, left turn
Controls == {<<1, 0>>, <<0, -1>>, <<0, 1>>}
\* landmark positions
LM1 == <<0, 0>>
LM2 == <<0, 3>>
\* (measurements, landmarks): none, matching, far off (no mass), two
\* landmarks, one measurement too many, one measurement too few
Observations ==
    { << <<>>, <<>> >>,
      << <<1>>, <<LM1>> >>,
      << <<9>>, <<LM1>> >>,
      << <<1, 2>>, <<LM1, LM2>> >>,
      << <<1, 2>>, <<LM1>> >>,
      << <<1>>, <<LM1, LM2>> >> }
\* what a read past the end of the measurement vector may find
Garbage == {0, 2}

(***************************************************************************)
(* Arithmetic.                                                             *)
(***************************************************************************)
Abs(a) == IF a < 0 THEN -a ELSE a

Sign(a) == IF a < 0 THEN -1 ELSE IF a > 0 THEN 1 ELSE 0

RECURSIVE GCD(_, _)
GCD(a, b) == IF b = 0 THEN a ELSE GCD(b, a % b)

\* float division n / d: a fraction in lowest terms; d = 0 gives inf or NaN
Div(n, d) ==
    IF d = 0 THEN [num |-> Sign(n), den |-> 0]
    ELSE LET g == GCD(Abs(n), Abs(d))
         IN  [num |-> Sign(d) * (n \div g), den |-> Abs(d) \div g]

\* the sum of two finite fractions, over their least common denominator
Plus(p, q) ==
    LET g == GCD(p.den, q.den)
        l == (p.den \div g) * q.den
    IN  Div(p.num * (l \div p.den) + q.num * (l \div q.den), l)

Times(p, q) == Div(p.num * q.num, p.den * q.den)

Zero == [num |-> 0, den |-> 1]

One == [num |-> 1, den |-> 1]

\* cos and sin of a heading in quarter turns
cos(t) == LET m == t % 4 IN IF m = 0 THEN 1 ELSE IF m = 2 THEN -1 ELSE 0

sin(t) == LET m == t % 4 IN IF m = 1 THEN 1 ELSE IF m = 3 THEN -1 ELSE 0

\* C fmod: the remainder has the sign of the dividend
fmod(a, m) == IF a >= 0 THEN a % m ELSE -((-a) % m)

\* std::sqrt rounded down to the grid
Isqrt(n) == CHOOSE k \in 0..n : k * k <= n /\ n < (k + 1) * (k + 1)

\* atan2(y, x) of two fractions: a heading in (-2, 2] quarter turns.  On an
\* axis the value is exact (quarter); off the axes it is quarter plus the
\* angle of the direction (s, c) inside its quadrant.
NaNAngle == [nan |-> TRUE, quarter |-> 0, s |-> 0, c |-> 0]

atan2(y, x) ==
    IF y.den = 0 \/ x.den = 0 THEN NaNAngle
    ELSE LET ys == y.num * x.den
             xs == x.num * y.den
             g == GCD(Abs(ys), Abs(xs))
         IN  IF ys = 0
             THEN [nan |-> FALSE, quarter |-> IF xs < 0 THEN 2 ELSE 0,
                   s |-> 0, c |-> 0]
             ELSE IF xs = 0
             THEN [nan |-> FALSE, quarter |-> IF ys > 0 THEN 1 ELSE -1,
                   s |-> 0, c |-> 0]
             ELSE [nan |-> FALSE,
                   quarter |-> IF ys > 0 THEN (IF xs > 0 THEN 0 ELSE 1)
                               ELSE (IF xs > 0 THEN -1 ELSE -2),
                   s |-> ys \div g, c |-> xs \div g]

\* an exact heading of q quarter turns, as atan2 returns it
Heading(q) == [nan |-> FALSE, quarter |-> q, s |-> 0, c |-> 0]

RECURSIVE SumOver(_, _)
\* the sum of the integers f[1] .. f[n]
SumOver(f, n) == IF n = 0 THEN 0 ELSE SumOver(f, n - 1) + f[n]

RECURSIVE SumFrac(_, _)
\* the sum of the fractions f[1] .. f[n]
SumFrac(f, n) == IF n = 0 THEN Zero ELSE Plus(SumFrac(f, n - 1), f[n])

(***************************************************************************)
(* The filter's member functions, as operators on the population.          *)
(***************************************************************************)
\* what a normal_distribution of mean 0 and the given deviation may return
NoiseDraws(sigma) == {0, sigma}

\* the particles pushed by initializeParticles; nz[i] = the three draws
InitialParticles(g, num_particles, nz) ==
    IF num_particles <= 0 THEN <<>>
    ELSE [i \in 1..num_particles |->
            [x |-> g[1] + nz[i][1], y |-> g[2] + nz[i][2],
             theta |-> g[3] + nz[i][3], weight |-> Div(1, num_particles)]]

\* the move without the correction of a negative remainder
moveParticleNoCorrection(p, distance, rotation, nd, nr) ==
    [x |-> p.x + (distance + nd) * cos(p.theta),
     y |-> p.y + (distance + nd) * sin(p.theta),
     theta |-> fmod(p.theta + rotation + nr, TWO_PI),
     weight |-> p.weight]

\* nd, nr: the draws of dist_pos_ and dist_rot_
moveParticle(p, distance, rotation, nd, nr) ==
    LET noisy_distance == distance + nd
        noisy_rotation == rotation + nr
        t == fmod(p.theta + noisy_rotation, TWO_PI)
    IN  [x |-> p.x + noisy_distance * cos(p.theta),
         y |-> p.y + noisy_distance * sin(p.theta),
         theta |-> IF t < 0 THEN t + TWO_PI ELSE t,
         weight |-> p.weight]

updateMotion(ps, distance, rotation, nz) ==
    IF Len(ps) = 0 THEN <<>>
    ELSE [i \in 1..Len(ps) |->
            moveParticle(ps[i], distance, rotation, nz[i][1], nz[i][2])]

\* gauss_norm * exp(-(diff * diff) / denom) on the grid, for the model's
\* sigma_sense_: the peak 2^MaxExp halves with each unit of diff^2 and
\* underflows to 0
Density(diff) ==
    LET d2 == diff * diff
    IN  IF d2 > MaxExp THEN 0 ELSE 2 ^ (MaxExp - d2)

RECURSIVE Likelihood(_, _, _, _)
\* the product over the landmarks 1 .. k of the density of the residual
Likelihood(p, measurements, landmarks, k) ==
    IF k = 0 THEN 1
    ELSE LET lm == landmarks[k]
             expected == Isqrt((lm[1] - p.x) * (lm[1] - p.x)
                               + (lm[2] - p.y) * (lm[2] - p.y))
             diff == measurements[k] - expected
         IN  Likelihood(p, measurements, landmarks, k - 1) * Density(diff)

\* the float accumulated in total_weight
TotalWeight(ps, measurements, landmarks) ==
    SumOver([i \in 1..Len(ps) |->
                Likelihood(ps[i], measurements, landmarks, Len(landmarks))],
            Len(ps))

\* the weighting without the normalisation by total_weight
calculateWeightsUnnormalized(ps, measurements, landmarks) ==
    IF Len(ps) = 0 THEN <<>>
    ELSE [i \in 1..Len(ps) |->
            [ps[i] EXCEPT !.weight =
                Div(Likelihood(ps[i], measurements, landmarks,
                               Len(landmarks)), 1)]]

calculateWeights(ps, measurements, landmarks) ==
    LET total_weight == TotalWeight(ps, measurements, landmarks)
    IN  IF Len(ps) = 0 THEN <<>>
        ELSE [i \in 1..Len(ps) |->
                LET weight == Likelihood(ps[i], measurements, landmarks,
                                         Len(landmarks))
                IN  [ps[i] EXCEPT !.weight =
                        IF total_weight > 0 THEN Div(weight, total_weight)
                        ELSE Div(weight, 1)]]

\* the indices std::discrete_distribution can return: those of positive
\* weight; with no positive weight its precondition fails and any index of
\* the vector may come back
Support(ps) ==
    IF \E i \in 1..Len(ps) : ps[i].weight.num > 0
    THEN {i \in 1..Len(ps) : ps[i].weight.num > 0}
    ELSE 1..Len(ps)

\* the loop stopping one particle short
resampleOneShort(ps, idx) ==
    IF Len(ps) <= 1 THEN <<>> ELSE [i \in 1..(Len(ps) - 1) |-> ps[idx[i]]]

\* idx[i] = the index drawn for the i-th new particle
resampleParticles(ps, idx) ==
    IF Len(ps) = 0 THEN <<>> ELSE [i \in 1..Len(ps) |-> ps[idx[i]]]

\* total_weight_squared
SumSquares(ps) ==
    SumFrac([i \in 1..Len(ps) |-> Times(ps[i].weight, ps[i].weight)], Len(ps))

\* the test without the reciprocal: S + 1e-6 < particles_.size() / 2
NeffBelowHalfNoReciprocal(S, n) ==
    LET half == n \div 2
    IN  half * S.den - S.num > S.den \div EpsInv

\* Neff < particles_.size() / 2 for S = total_weight_squared = num / den and
\* n = particles_.size(): with Neff = 1 / (S + 1e-6) the test is
\* 1 < half * (S + 1/EpsInv), that is EpsInv * (den - half * num) < half * den,
\* compared without forming the products by EpsInv
NeffBelowHalf(S, n) ==
    LET half == n \div 2
        A == S.den - half * S.num
        B == half * S.den
    IN  A < (B + EpsInv - 1) \div EpsInv

NeedsResample(ps) == NeffBelowHalf(SumSquares(ps), Len(ps))

\* the estimate with the arguments of atan2 exchanged
estimateStateSwapped(ps) ==
    LET n == Len(ps)
        sum_x == SumOver([i \in 1..n |-> ps[i].x], n)
        sum_y == SumOver([i \in 1..n |-> ps[i].y], n)
        sum_sin == SumOver([i \in 1..n |-> sin(ps[i].theta)], n)
        sum_cos == SumOver([i \in 1..n |-> cos(ps[i].theta)], n)
    IN  [void |-> FALSE, x |-> Div(sum_x, n), y |-> Div(sum_y, n),
         theta |-> atan2(Div(sum_cos, n), Div(sum_sin, n))]

estimateState(ps) ==
    LET n == Len(ps)
        sum_x == SumOver([i \in 1..n |-> ps[i].x], n)
        sum_y == SumOver([i \in 1..n |-> ps[i].y], n)
        sum_sin == SumOver([i \in 1..n |-> sin(ps[i].theta)], n)
        sum_cos == SumOver([i \in 1..n |-> cos(ps[i].theta)], n)
    IN  [void |-> FALSE, x |-> Div(sum_x, n), y |-> Div(sum_y, n),
         theta |-> atan2(Div(sum_sin, n), Div(sum_cos, n))]

\* the result of a void member function
Void == [void |-> TRUE, x |-> Zero, y |-> Zero, theta |-> Heading(0)]

\* the measurement vector as the weighting loop reads it: reads past its end
\* find the values g
ReadMeasurements(measurements, landmarks, g) ==
    IF Len(measurements) >= Len(landmarks) THEN measurements
    ELSE measurements \o g

\* the values that reads past the end of the measurement vector may find
PastTheEnd(measurements, landmarks) ==
    IF Len(measurements) >= Len(landmarks) THEN {<<>>}
    ELSE [1..(Len(landmarks) - Len(measurements)) -> Garbage]

\* steps 1 and 2 of updateAndEstimate in the other order
WeightThenPredict(ps, distance, rotation, nz, measurements, landmarks) ==
    updateMotion(calculateWeights(ps, measurements, landmarks),
                 distance, rotation, nz)

\* steps 1 and 2 of updateAndEstimate: move the particles, then weight them
PredictThenWeight(ps, distance, rotation, nz, measurements, landmarks) ==
    calculateWeights(updateMotion(ps, distance, rotation, nz),
                     measurements, landmarks)

(***************************************************************************)
(* The state machine: one filter object and the calls made on it.  call    *)
(* records the last call: its name, its arguments and, for                 *)
(* updateAndEstimate, the population after the weighting step and whether  *)
(* resampleParticles ran.  ret is what the call returned; err is "crash"   *)
(* once a read outside a vector has ended the process.                     *)
(***************************************************************************)
NoCall ==
    [op |-> "ParticleFilter", num_particles |-> 0, distance |-> 0,
     rotation |-> 0, measurements |-> <<>>, landmarks |-> <<>>,
     resampled |-> FALSE, weighted |-> <<>>]

Init ==
    /\ \E s \in Sigmas : sigma_pos = s[1] /\ sigma_rot = s[2]
    /\ particles = <<>>
    /\ ret = Void
    /\ err = "ok"
    /\ call = NoCall
    /\ calls = 0

CanCall == err = "ok" /\ calls < MaxCalls

InitializeParticles ==
    /\ CanCall
    /\ \E g \in Guesses, num_particles \in -1..(MaxN - Len(particles)) :
         \E nz \in [1..num_particles ->
                      NoiseDraws(sigma_pos) \X NoiseDraws(sigma_pos)
                        \X NoiseDraws(sigma_rot)] :
           /\ particles' = particles \o InitialParticles(g, num_particles, nz)
           /\ call' = [NoCall EXCEPT !.op = "initializeParticles",
                                     !.num_particles = num_particles]
    /\ ret' = Void
    /\ calls' = calls + 1
    /\ UNCHANGED <<sigma_pos, sigma_rot, err>>

UpdateMotion ==
    /\ CanCall
    /\ \E c \in Controls :
         \E nz \in [1..Len(particles) ->
                      NoiseDraws(sigma_pos) \X NoiseDraws(sigma_rot)] :
           /\ particles' = updateMotion(particles, c[1], c[2], nz)
           /\ call' = [NoCall EXCEPT !.op = "updateMotion",
                                     !.distance = c[1], !.rotation = c[2]]
    /\ ret' = Void
    /\ calls' = calls + 1
    /\ UNCHANGED <<sigma_pos, sigma_rot, err>>

CalculateWeights ==
    /\ CanCall
    /\ \E o \in Observations :
         /\ call' = [NoCall EXCEPT !.op = "calculateWeights",
                                   !.measurements = o[1], !.landmarks = o[2]]
         /\ \/ \E g \in PastTheEnd(o[1], o[2]) :
                 /\ particles' = calculateWeights(
                        particles, ReadMeasurements(o[1], o[2], g), o[2])
                 /\ err' = "ok"
            \/ /\ Len(o[1]) < Len(o[2])
               /\ Len(particles) > 0
               /\ particles' = particles
               /\ err' = "crash"
    /\ ret' = Void
    /\ calls' = calls + 1
    /\ UNCHANGED <<sigma_pos, sigma_rot>>

ResampleParticles ==
    /\ CanCall
    /\ \E idx \in [1..Len(particles) -> Support(particles)] :
         particles' = resampleParticles(particles, idx)
    /\ call' = [NoCall EXCEPT !.op = "resampleParticles"]
    /\ ret' = Void
    /\ calls' = calls + 1
    /\ UNCHANGED <<sigma_pos, sigma_rot, err>>

EstimateState ==
    /\ CanCall
    /\ ret' = estimateState(particles)
    /\ call' = [NoCall EXCEPT !.op = "estimateState"]
    /\ calls' = calls + 1
    /\ UNCHANGED <<sigma_pos, sigma_rot, particles, err>>

UpdateAndEstimate ==
    /\ CanCall
    /\ \E c \in Controls, o \in Observations :
         \E nz \in [1..Len(particles) ->
                      NoiseDraws(sigma_pos) \X NoiseDraws(sigma_rot)] :
           LET moved == updateMotion(particles, c[1], c[2], nz)
               this == [NoCall EXCEPT !.op = "updateAndEstimate",
                                      !.distance = c[1], !.rotation = c[2],
                                      !.measurements = o[1],
                                      !.landmarks = o[2]]
           IN  \/ \E g \in PastTheEnd(o[1], o[2]) :
                    LET weighted == PredictThenWeight(
                            particles, c[1], c[2], nz,
                            ReadMeasurements(o[1], o[2], g), o[2])
                    IN  /\ IF NeedsResample(weighted)
                           THEN \E idx \in [1..Len(weighted) ->
                                              Support(weighted)] :
                                  /\ particles' =
                                       resampleParticles(weighted, idx)
                                  /\ call' = [this EXCEPT
                                                !.resampled = TRUE,
                                                !.weighted = weighted]
                           ELSE /\ particles' = weighted
                                /\ call' = [this EXCEPT
                                              !.weighted = weighted]
                        /\ ret' = estimateState(particles')
                        /\ err' = "ok"
               \/ /\ Len(o[1]) < Len(o[2])
                  /\ Len(particles) > 0
                  /\ particles' = moved
                  /\ call' = this
                  /\ ret' = Void
                  /\ err' = "crash"
    /\ calls' = calls + 1
    /\ UNCHANGED <<sigma_pos, sigma_rot>>

Next ==
    \/ InitializeParticles
    \/ UpdateMotion
    \/ CalculateWeights
    \/ ResampleParticles
    \/ EstimateState
    \/ UpdateAndEstimate

Spec == Init /\ [][Next]_vars

TypeOK ==
    /\ <<sigma_pos, sigma_rot>> \in Sigmas
    /\ Len(particles) <= MaxN
    /\ err \in {"ok", "crash"}
    /\ calls \in 0..MaxCalls

(***************************************************************************)
(* Vocabulary of the properties.                                           *)
(***************************************************************************)
Pose(p) == <<p.x, p.y, p.theta>>

Weights(ps) == [i \in 1..Len(ps) |-> ps[i].weight]

AllZero(ps) == \A i \in 1..Len(ps) : ps[i].weight.num = 0

SamePose(ps) == \A i \in 1..Len(ps) : Pose(ps[i]) = Pose(ps[1])

\* the last call returned a pose estimate
Estimated == call.op \in {"estimateState", "updateAndEstimate"} /\ err = "ok"

\* the last call was a completed updateAndEstimate
Stepped == call.op = "updateAndEstimate" /\ err = "ok"

\* the population the last call weighted, when it weighted one
WeightedPopulation ==
    IF call.op = "updateAndEstimate" THEN call.weighted ELSE particles

\* the last call ran a complete weighting pass on vectors of equal length
WeightingPass ==
    /\ call.op \in {"calculateWeights", "updateAndEstimate"}
    /\ err = "ok"
    /\ Len(call.measurements) = Len(call.landmarks)

\* Neff < N / 2 with N / 2 the real half of N: 2 < N * (S + 1/EpsInv)
NeffBelowRealHalf(ps) ==
    LET S == SumSquares(ps)
        A == 2 * S.den - Len(ps) * S.num
        B == Len(ps) * S.den
    IN  A < (B + EpsInv - 1) \div EpsInv

\* a heading in [0, 2 pi) mapped into (-pi, pi]
WrapPi(q) == IF q <= 2 THEN q ELSE q - TWO_PI

\* population sizes around the limit 2 * 10^6 of C10
LargeSizes == {4, 5, 1000, 1999999, 2000000}

(***************************************************************************)
(* C1.  A call other than initializeParticles leaves the population size   *)
(* as it is (resampleParticles and updateAndEstimate included, resampling  *)
(* or not), and initializeParticles with N > 0 on the empty population of  *)
(* a new filter leaves exactly N particles.                                *)
(***************************************************************************)
PopulationSizeInvariance ==
    [][/\ call'.op # "initializeParticles"
            => Len(particles') = Len(particles)
       /\ (call'.op = "initializeParticles" /\ Len(particles) = 0
             /\ call'.num_particles > 0)
            => Len(particles') = call'.num_particles]_vars

PopulationResampled ==
    /\ Stepped
    /\ call.resampled
    /\ Len(particles) = MaxN

(***************************************************************************)
(* C2.  After a weighting pass (calculateWeights, or the weighting step of *)
(* updateAndEstimate) on vectors of equal length whose likelihoods have a  *)
(* positive sum, every weight is its particle's likelihood divided by that *)
(* sum and the weights sum to 1.                                           *)
(***************************************************************************)
WeightNormalization ==
    LET ps == WeightedPopulation
        total == TotalWeight(ps, call.measurements, call.landmarks)
    IN  (WeightingPass /\ total > 0) =>
           /\ \A i \in 1..Len(ps) :
                ps[i].weight.num * total =
                  ps[i].weight.den * Likelihood(ps[i], call.measurements,
                                        call.landmarks, Len(call.landmarks))
           /\ SumFrac(Weights(ps), Len(ps)) = One

UnequalWeightsNormalized ==
    /\ WeightingPass
    /\ call.op = "calculateWeights"
    /\ Len(call.landmarks) > 0
    /\ Len(particles) > 1
    /\ \E i, j \in 1..Len(particles) :
         /\ particles[i].weight.num > 0
         /\ particles[j].weight.num > 0
         /\ particles[i].weight # particles[j].weight

(***************************************************************************)
(* C3.  A calculateWeights call with a measurement vector whose length     *)
(* differs from the landmark vector's ends in InputContractViolation and   *)
(* leaves every weight as it was.                                          *)
(***************************************************************************)
MismatchRejected ==
    [][(call'.op = "calculateWeights"
          /\ Len(call'.measurements) # Len(call'.landmarks))
         => /\ err' = "InputContractViolation"
            /\ Weights(particles') = Weights(particles)]_vars

(***************************************************************************)
(* C4.  initializeParticles with a particle count N <= 0 ends in           *)
(* InvalidConfiguration instead of returning normally.                     *)
(***************************************************************************)
NonPositiveCountRejected ==
    (call.op = "initializeParticles" /\ call.num_particles <= 0)
       => err = "InvalidConfiguration"

(***************************************************************************)
(* C5.  estimateState on an empty population ends in EmptyPopulation and   *)
(* divides nothing by the population size 0.                               *)
(***************************************************************************)
EmptyPopulationRejected ==
    (call.op = "estimateState" /\ Len(particles) = 0)
       => /\ err = "EmptyPopulation"
          /\ ret.x.den # 0
          /\ ret.y.den # 0
          /\ ~ret.theta.nan

(***************************************************************************)
(* C6.  Every completed updateAndEstimate runs predict, weight, degeneracy *)
(* check with conditional resample, then estimate: the weighted population *)
(* holds the poses this call's prediction gave the particles it started    *)
(* from, with the weights of those poses; resampleParticles ran exactly    *)
(* when the Neff test on those weights said so; the population left is the *)
(* weighted one, or made of its particles when resampled; and the pose     *)
(* returned is the estimate of the population left.                        *)
(***************************************************************************)
PipelineOrder ==
    [][(call'.op = "updateAndEstimate" /\ err' = "ok") =>
         LET W == call'.weighted
         IN  /\ Len(W) = Len(particles)
             /\ \A i \in 1..Len(W) :
                  \E nd \in NoiseDraws(sigma_pos), nr \in NoiseDraws(sigma_rot) :
                    Pose(W[i]) = Pose(moveParticle(particles[i],
                                   call'.distance, call'.rotation, nd, nr))
             /\ \E g \in PastTheEnd(call'.measurements, call'.landmarks) :
                  W = calculateWeights(W,
                        ReadMeasurements(call'.measurements,
                                         call'.landmarks, g),
                        call'.landmarks)
             /\ call'.resampled = NeedsResample(W)
             /\ IF call'.resampled
                THEN /\ Len(particles') = Len(W)
                     /\ \A i \in 1..Len(W) :
                          \E j \in 1..Len(W) : particles'[i] = W[j]
                ELSE particles' = W
             /\ ret' = estimateState(particles')]_vars

MovedWeightedResampled ==
    /\ Stepped
    /\ call.resampled
    /\ call.distance = 1
    /\ Len(particles) > 1
    /\ particles # call.weighted

(***************************************************************************)
(* C7.  updateAndEstimate resamples exactly when Neff is below the real    *)
(* half of N, for odd N as for even N, and otherwise leaves the weighted   *)
(* population as it is.                                                    *)
(***************************************************************************)
ResampleBelowRealHalf ==
    Stepped =>
       /\ call.resampled = NeffBelowRealHalf(call.weighted)
       /\ ~NeffBelowRealHalf(call.weighted) => particles = call.weighted

(***************************************************************************)
(* C8.  When every particle of a non-empty population has the pose         *)
(* (x0, y0, theta0) with theta0 in [0, 2 pi), the estimate is exactly      *)
(* (x0, y0, theta0).                                                       *)
(***************************************************************************)
IdenticalPopulationEstimate ==
    (Estimated /\ Len(particles) > 0 /\ SamePose(particles)
       /\ particles[1].theta \in 0..(TWO_PI - 1))
      => ret = [void |-> FALSE,
                x |-> [num |-> particles[1].x, den |-> 1],
                y |-> [num |-> particles[1].y, den |-> 1],
                theta |-> Heading(particles[1].theta)]

\* C8 as amended: the heading returned is theta0 mapped into (-pi, pi], that
\* is theta0 when theta0 <= pi and theta0 - 2 pi otherwise.
IdenticalPopulationEstimateWrapped ==
    (Estimated /\ Len(particles) > 0 /\ SamePose(particles)
       /\ particles[1].theta \in 0..(TWO_PI - 1))
      => ret = [void |-> FALSE,
                x |-> [num |-> particles[1].x, den |-> 1],
                y |-> [num |-> particles[1].y, den |-> 1],
                theta |-> Heading(WrapPi(particles[1].theta))]

IdenticalPopulationBeyondPi ==
    /\ Estimated
    /\ Len(particles) > 1
    /\ SamePose(particles)
    /\ particles[1].theta = 3
    /\ ret.theta = Heading(-1)

NoResampleOfZeroWeights ==
    /\ (Stepped /\ AllZero(call.weighted)) =>
          /\ ~call.resampled
          /\ particles = call.weighted
    /\ \A n \in LargeSizes : ~NeffBelowHalf(Zero, n)

ZeroMassStep ==
    /\ Stepped
    /\ Len(call.weighted) > 1
    /\ AllZero(call.weighted)
    /\ particles = call.weighted

====
